---- MODULE Spec2Model ----
(***************************************************************************)
(* gitmess (src/main.py): the raw-mode bounded line editor getInput, the   *)
(* single-keystroke reader getChar, the wrapped renderer                   *)
(* printMessageWrapped and the workflow main that threads the editor       *)
(* sessions together.                                                      *)
(*                                                                         *)
(* Strings are sequences of character codes (ord).  The terminal is a      *)
(* cursor (row, col) and a screen, rows counted from the row the cursor    *)
(* was on when the current editor session (or render call) started.        *)
(***************************************************************************)
EXTENDS Integers, Sequences, FiniteSets, TLC

VARIABLES
  columns,          \* shutil.get_terminal_size().columns
  term,             \* the terminal: [row, col, screen]
  termMode,         \* the tty line discipline: "cooked" or "raw"
  oldSettings,      \* getChar's local: the settings captured on entry
  stdin,            \* what the user types: a script or a free keyboard
  pc,               \* position inside getInput / getChar / the render call
  args,             \* getInput's parameters [prefix, length, blankChar, inputText]
  prefix,           \* getInput's locals ...
  userInput,
  cursorPos,
  messageLine,
  maxLengthMessage,
  nlines,
  cursorLine,
  escapeNext,
  char,
  ret,              \* the pair getInput returned last: <<prefix, userInput>>
  mainpc,           \* position inside main
  params,           \* readParameters() and the command line
  types,            \* main's locals ...
  scope,
  title,
  description,
  issueCode,
  breakingChange,
  commitMessage,
  commits,          \* the messages commit() was invoked with, in order
  passes,           \* passes of main's while loop started so far
  retitles,         \* re-edits of an over-long title made so far
  shouldCommit      \* the last answer to the confirmation, "none" before it

ttyVars  == <<columns, term, termMode, oldSettings, stdin>>
edVars   == <<pc, args, prefix, userInput, cursorPos, messageLine,
              maxLengthMessage, nlines, cursorLine, escapeNext, char, ret>>
mainVars == <<mainpc, params, types, scope, title, description, issueCode,
              breakingChange, commitMessage, commits, passes, retitles,
              shouldCommit>>
vars     == <<ttyVars, edVars, mainVars>>

----------------------------------------------------------------------------
(* Bounds of the model *)

\* the longest buffer the user types into one field
MaxBuf == 3
\* the longest buffer the user types into one field of main's workflow
MaxMainBuf == 1
\* the characters the fields of main's workflow hold before the user stops
\* adding more
MaxMainTotal == 1
\* the passes of main's while loop (answers 'edit' followed up)
MaxPasses == 2
\* the re-edits of an over-long title followed up
MaxRetitles == 1
\* the longest message handed to a stand-alone render call
MaxLen == 6
\* the widest row (columns - margin) of a stand-alone render call
MaxCols == 4

----------------------------------------------------------------------------
(* Character codes and Python string primitives *)

NL == 10
CR == 13
backline == -1
Space == 32
Colon == 58

Min(a, b) == IF a < b THEN a ELSE b
Max(a, b) == IF a > b THEN a ELSE b

\* s[:n], n of either sign
PySliceTo(s, n) ==
  IF n >= 0 THEN SubSeq(s, 1, Min(n, Len(s)))
  ELSE SubSeq(s, 1, Max(0, Len(s) + n))

\* s[n:], n >= 0
PySliceFrom(s, n) == SubSeq(s, Min(n, Len(s)) + 1, Len(s))

\* s[a:b], 0 <= a <= b
PySlice(s, a, b) == SubSeq(s, Min(a, Len(s)) + 1, Min(b, Len(s)))

\* n * s: the empty string when n <= 0
PyRepeat(n, s) ==
  IF n <= 0 \/ s = <<>> THEN <<>>
  ELSE [i \in 1..(n * Len(s)) |-> s[((i - 1) % Len(s)) + 1]]

----------------------------------------------------------------------------
(* The terminal the prints go to.  What a print writes is a sequence of    *)
(* chunks: a chunk is one control string ("\n", "\r", "\033[F") or a run   *)
(* of printing characters.                                                 *)

BlankTerm == [row |-> 0, col |-> 0, screen |-> <<>>]

\* row r of the screen as shown: trailing blanks are not distinguishable
RECURSIVE RStrip(_)
RStrip(s) ==
  IF s # <<>> /\ s[Len(s)] = Space THEN RStrip(SubSeq(s, 1, Len(s) - 1)) ELSE s

ScreenRow(t, r) == IF r + 1 <= Len(t.screen) THEN t.screen[r + 1] ELSE <<>>

\* a run of printing characters: overwrite the cells from the cursor on,
\* advance the cursor
PutString(t, s) ==
  LET old    == ScreenRow(t, t.row)
      padded == old \o PyRepeat(t.col - Len(old), <<Space>>)
      new    == SubSeq(padded, 1, t.col) \o s \o PySliceFrom(padded, t.col + Len(s))
      rows   == Max(Len(t.screen), t.row + 1)
  IN  IF s = <<>> THEN t
      ELSE [row    |-> t.row,
            col    |-> t.col + Len(s),
            screen |-> [r \in 1..rows |->
                          IF r = t.row + 1 THEN new
                          ELSE IF r <= Len(t.screen) THEN t.screen[r] ELSE <<>>]]

\* one chunk: "\n" (cooked output: next row, column 0), "\r", "\033[F"
\* (start of the previous row, stopping at the top), or a run of characters
Emit1(t, chunk) ==
  IF chunk = <<NL>> THEN [t EXCEPT !.row = @ + 1, !.col = 0]
  ELSE IF chunk = <<CR>> THEN [t EXCEPT !.col = 0]
  ELSE IF chunk = <<backline>> THEN [t EXCEPT !.row = Max(0, @ - 1), !.col = 0]
  ELSE PutString(t, chunk)

RECURSIVE Emit(_, _)
Emit(t, out) == IF out = <<>> THEN t ELSE Emit(Emit1(t, Head(out)), Tail(out))

\* n copies of one control string, as chunks
Times(n, c) == [i \in 1..n |-> <<c>>]

\* '\n'.join(lines), as chunks
JoinNL(lines) ==
  [i \in 1..(2 * Len(lines) - 1) |->
     IF i % 2 = 1 THEN lines[(i + 1) \div 2] ELSE <<NL>>]

----------------------------------------------------------------------------
(* printMessageWrapped *)

margin == 5

Cols(terminalColumns) == terminalColumns - margin


\* a plausible slip: the row count taken from len(message) + 1
NLinesOffByOne(message, cols) == (Len(message) + 1) \div cols + 1

NLinesOf(message, cols) == Len(message) \div cols + 1

CursorLineOf(cursorPosition, cols) == cursorPosition \div cols


\* a plausible slip: the column taken modulo the full terminal width
CursorPosLineNoMargin(cursorPosition, cols) == cursorPosition % (cols + margin)

CursorPosLineOf(cursorPosition, cols) == cursorPosition % cols

LinesOf(message, cols) ==
  [idx \in 1..NLinesOf(message, cols) |->
     PySlice(message, (idx - 1) * cols, idx * cols)]

\* the terminal after the four prints, and the returned (nlines, cursorLine)
PrintMessageWrapped(t, message, cursorPosition, cols) ==
  LET nl            == NLinesOf(message, cols)
      cl            == CursorLineOf(cursorPosition, cols)
      cursorPosLine == CursorPosLineOf(cursorPosition, cols)
      lines         == LinesOf(message, cols)
      t1 == Emit(t, JoinNL(lines))
      t2 == Emit(t1, <<<<CR>>>> \o Times(nl - 1, backline))
      t3 == IF cl > 0
            THEN Emit(t2, JoinNL(SubSeq(lines, 1, cl)) \o <<<<NL>>>>)
            ELSE t2
      t4 == Emit(t3, <<PySliceTo(lines[cl + 1], cursorPosLine)>>)
  IN  [term |-> t4, nlines |-> nl, cursorLine |-> cl]

----------------------------------------------------------------------------
(* Key codes tested by getInput *)

KeyCtrlC     == 3
KeyEnter     == 13
KeyEscape    == 27
KeyRight     == 67
KeyLeft      == 68
KeyBackspace == 127
KeyTab       == 9
KeyBracket   == 91

\* sys.maxsize, the length main gives to a free-length field; any value
\* above every reachable line length behaves the same
maxsize == 2147483647

\* the keys a user at a free keyboard presses: 'C' and 'D' are the printable
\* characters, and the final bytes of the arrow sequences
FreeKeys ==
  {KeyCtrlC, KeyTab, KeyEnter, KeyEscape, KeyRight, KeyLeft, KeyBackspace}

\* the keys the next read can deliver: the script first, then the keyboard
NextKeys(s) ==
  IF s.pos <= Len(s.script) THEN {s.script[s.pos]} ELSE s.keys

Consume(s) ==
  IF s.pos <= Len(s.script) THEN [s EXCEPT !.pos = @ + 1] ELSE s

Scripted(script) == [script |-> script, pos |-> 1, keys |-> {}]
Keyboard(keys)   == [script |-> <<>>, pos |-> 1, keys |-> keys]

----------------------------------------------------------------------------
(* getInput: the pure parts *)


\* a plausible slip: the label used as the prompt, without ': '
PromptNoSuffix(p) == p

\* prefix += ': '
Prompt(p) == p \o <<Colon, Space>>

\* userInput = inputText[:(length-len(prefix))]
SeedText(inputText, length, lenPrefix) == PySliceTo(inputText, length - lenPrefix)


\* a plausible slip: the line without its fill
DisplayLineNoPad(p, u, length, blankChar) == p \o u

\* prefix + userInput + (length - len(userInput) - lenPrefix) * blankChar
DisplayLine(p, u, length, blankChar) ==
  p \o u \o PyRepeat(length - Len(u) - Len(p), blankChar)

\* len(userInput) + lenPrefix == length
AtCapacity(u, lenPrefix, length) == Len(u) + lenPrefix = length


\* a plausible slip: the left arrow without its clamp
LeftAlways(cp, lenPrefix) == TRUE

\* ord(char) == 68 and (cursorPos > lenPrefix)
LeftAllowed(cp, lenPrefix) == cp > lenPrefix

\* (ord(char) == 67) and (cursorPos < lenPrefix + len(userInput))
RightAllowed(cp, lenPrefix, u) == cp < lenPrefix + Len(u)


\* a plausible slip: the character appended, wherever the cursor is
InsertAtEnd(u, cursorPosWord, c) == u \o <<c>>

\* userInput[:cursorPosWord] + char + userInput[cursorPosWord:]
InsertAt(u, cursorPosWord, c) ==
  PySliceTo(u, cursorPosWord) \o <<c>> \o PySliceFrom(u, cursorPosWord)


\* a plausible slip: the last character removed, wherever the cursor is
DeleteLast(u, cursorPosWord) == SubSeq(u, 1, Len(u) - 1)

\* userInput[:(cursorPosWord-1)] + userInput[(cursorPosWord):]
DeleteBefore(u, cursorPosWord) ==
  PySliceTo(u, cursorPosWord - 1) \o PySliceFrom(u, cursorPosWord)


\* a plausible slip: the count of escape bytes never decremented
EscapeRemainingStuck(n) == n

\* escapeNext -= 1
EscapeRemaining(n) == n - 1

\* ord(char) >= 32, reached only when the earlier branches did not match
Printable(c) == c >= 32


\* a plausible slip: only the length of the new line is blanked
EraseLengthCurrent(mlm, line) == Len(line)

\* lines 497-498: the widest line painted so far
EraseLength(mlm, line) == Max(mlm, Len(line))

\* a plausible slip: no newline besides the one print adds
TrailingNewlinesNone(nl, cl) == <<<<NL>>>>

\* line 505: print('\n'*(nlines - cursorLine)), and the newline print adds
TrailingNewlines(nl, cl) == Times(nl - cl, NL) \o <<<<NL>>>>

\* lines 490-502: back to the first row, blank the widest line painted so
\* far, paint the new line
Repaint(t, cl, p, u, cp, mlm, a, cols) ==
  LET t0   == Emit(t, <<<<CR>>>> \o Times(cl, backline))
      line == DisplayLine(p, u, a.length, a.blankChar)
      m    == EraseLength(mlm, line)
      e    == PrintMessageWrapped(t0, PyRepeat(m, <<Space>>), 0, cols)
      r    == PrintMessageWrapped(e.term, line, cp, cols)
  IN  [term |-> r.term, messageLine |-> line, maxLengthMessage |-> m,
       nlines |-> r.nlines, cursorLine |-> r.cursorLine]

\* the model's bound on typing: a user at a free keyboard stops adding
\* characters to a field that holds MaxBuf of them (MaxMainBuf inside main)
CanType ==
  \/ stdin.keys = {}
  \/ mainpc = "harness" /\ Len(userInput) < MaxBuf
  \/ /\ mainpc # "harness"
     /\ Len(userInput) < MaxMainBuf
     /\ Len(scope[2]) + Len(title[2]) + Len(description[2])
          + Len(issueCode[2]) + Len(breakingChange[2]) < MaxMainTotal

\* char between two reads: the value is dead once its branch has run
NoChar == 0

----------------------------------------------------------------------------
(* getChar *)


\* a plausible slip: the settings restored on the normal return only
RestoredOnReturnOnly(mode, old, failed) == IF failed THEN mode ELSE old

\* finally: termios.tcsetattr(fileDescriptor, termios.TCSADRAIN, oldSettings)
Restored(mode, old, failed) == old

\* lines 386-389: capture the settings, enter raw mode
GetCharSetRaw ==
  /\ pc = "loop"
  /\ oldSettings' = termMode
  /\ termMode' = "raw"
  /\ pc' = "raw"
  /\ UNCHANGED <<columns, term, stdin, args, prefix, userInput, cursorPos,
                 messageLine, maxLengthMessage, nlines, cursorLine,
                 escapeNext, char, ret, mainVars>>

\* line 390: the blocking read delivers one key
GetCharRead ==
  /\ pc = "raw"
  /\ \E k \in NextKeys(stdin) :
       /\ char' = k
       /\ stdin' = Consume(stdin)
  /\ pc' = "read"
  /\ UNCHANGED <<columns, term, termMode, oldSettings, args, prefix,
                 userInput, cursorPos, messageLine, maxLengthMessage, nlines,
                 cursorLine, escapeNext, ret, mainVars>>

\* line 390: the read raises (an I/O error, a signal's exception)
GetCharReadFails ==
  /\ pc = "raw"
  /\ pc' = "readfail"
  /\ UNCHANGED <<ttyVars, args, prefix, userInput, cursorPos, messageLine,
                 maxLengthMessage, nlines, cursorLine, escapeNext, char, ret,
                 mainVars>>

\* lines 391-393: the finally clause, then the return or the re-raise
GetCharFinally ==
  /\ pc \in {"read", "readfail"}
  /\ termMode' = Restored(termMode, oldSettings, pc = "readfail")
  /\ pc' = IF pc = "read" THEN "dispatch" ELSE "raised"
  /\ UNCHANGED <<columns, term, oldSettings, stdin, args, prefix, userInput,
                 cursorPos, messageLine, maxLengthMessage, nlines, cursorLine,
                 escapeNext, char, ret, mainVars>>

----------------------------------------------------------------------------
(* getInput *)

\* lines 437-452: the prompt, the seed, the first paint
GetInputBegin ==
  /\ pc = "call"
  /\ LET p    == Prompt(args.prefix)
         u    == SeedText(args.inputText, args.length, Len(p))
         cp   == Len(p) + Len(u)
         line == DisplayLine(p, u, args.length, args.blankChar)
         r    == PrintMessageWrapped(term, line, cp, Cols(columns))
     IN  /\ prefix' = p
         /\ userInput' = u
         /\ cursorPos' = cp
         /\ messageLine' = line
         /\ maxLengthMessage' = Len(line)
         /\ term' = r.term
         /\ nlines' = r.nlines
         /\ cursorLine' = r.cursorLine
  /\ escapeNext' = 0
  /\ pc' = "loop"
  /\ UNCHANGED <<columns, termMode, oldSettings, stdin, args, char, ret,
                 mainVars>>

\* the tail of one loop iteration that reaches line 490 with the buffer u and
\* the cursor cp
RepaintWith(u, cp) ==
  LET r == Repaint(term, cursorLine, prefix, u, cp, maxLengthMessage, args,
                   Cols(columns))
  IN  /\ userInput' = u
      /\ cursorPos' = cp
      /\ term' = r.term
      /\ messageLine' = r.messageLine
      /\ maxLengthMessage' = r.maxLengthMessage
      /\ nlines' = r.nlines
      /\ cursorLine' = r.cursorLine

\* `continue`: the iteration ends without a repaint
NoRepaint ==
  UNCHANGED <<userInput, cursorPos, term, messageLine, maxLengthMessage,
              nlines, cursorLine>>

\* lines 460-467: a byte read while escapeNext > 0
EscapeByte ==
  /\ pc = "dispatch"
  /\ escapeNext > 0
  /\ escapeNext' = EscapeRemaining(escapeNext)
  /\ IF char = KeyLeft /\ LeftAllowed(cursorPos, Len(prefix))
       THEN RepaintWith(userInput, cursorPos - 1)
       ELSE IF char = KeyRight /\ RightAllowed(cursorPos, Len(prefix), userInput)
              THEN RepaintWith(userInput, cursorPos + 1)
              ELSE NoRepaint
  /\ pc' = "loop"
  /\ char' = NoChar
  /\ UNCHANGED <<columns, termMode, oldSettings, stdin, args, prefix, ret,
                 mainVars>>

\* lines 468-475
Backspace ==
  /\ pc = "dispatch"
  /\ escapeNext = 0
  /\ char = KeyBackspace
  /\ LET cursorPosWord == cursorPos - Len(prefix)
     IN  IF cursorPosWord > 0
           THEN RepaintWith(DeleteBefore(userInput, cursorPosWord), cursorPos - 1)
           ELSE RepaintWith(userInput, cursorPos)
  /\ pc' = "loop"
  /\ char' = NoChar
  /\ UNCHANGED <<columns, termMode, oldSettings, stdin, args, prefix,
                 escapeNext, ret, mainVars>>

\* lines 477-478 and 504-506: break, the trailing newlines, the return
Enter ==
  /\ pc = "dispatch"
  /\ escapeNext = 0
  /\ char = KeyEnter
  /\ term' = Emit(term, TrailingNewlines(nlines, cursorLine))
  /\ ret' = <<prefix, userInput>>
  /\ pc' = "returned"
  /\ char' = NoChar
  /\ UNCHANGED <<columns, termMode, oldSettings, stdin, args, prefix,
                 userInput, cursorPos, messageLine, maxLengthMessage, nlines,
                 cursorLine, escapeNext, mainVars>>

\* lines 479-480
EscapeStart ==
  /\ pc = "dispatch"
  /\ escapeNext = 0
  /\ char = KeyEscape
  /\ escapeNext' = 2
  /\ RepaintWith(userInput, cursorPos)
  /\ pc' = "loop"
  /\ char' = NoChar
  /\ UNCHANGED <<columns, termMode, oldSettings, stdin, args, prefix, ret,
                 mainVars>>

\* lines 481-482: raise KeyboardInterrupt
CtrlC ==
  /\ pc = "dispatch"
  /\ escapeNext = 0
  /\ char = KeyCtrlC
  /\ pc' = "interrupted"
  /\ char' = NoChar
  /\ UNCHANGED <<ttyVars, args, prefix, userInput, cursorPos, messageLine,
                 maxLengthMessage, nlines, cursorLine, escapeNext, ret,
                 mainVars>>

OtherKey ==
  /\ escapeNext = 0
  /\ char \notin {KeyBackspace, KeyEnter, KeyEscape, KeyCtrlC}

\* lines 483-484
Full ==
  /\ pc = "dispatch"
  /\ OtherKey
  /\ AtCapacity(userInput, Len(prefix), args.length)
  /\ NoRepaint
  /\ pc' = "loop"
  /\ char' = NoChar
  /\ UNCHANGED <<columns, termMode, oldSettings, stdin, args, prefix,
                 escapeNext, ret, mainVars>>

\* lines 485-488
Insert ==
  /\ pc = "dispatch"
  /\ OtherKey
  /\ ~AtCapacity(userInput, Len(prefix), args.length)
  /\ Printable(char)
  /\ CanType
  /\ RepaintWith(InsertAt(userInput, cursorPos - Len(prefix), char),
                 cursorPos + 1)
  /\ pc' = "loop"
  /\ char' = NoChar
  /\ UNCHANGED <<columns, termMode, oldSettings, stdin, args, prefix,
                 escapeNext, ret, mainVars>>

\* no branch matches (a control code below 32): the repaint still runs
OtherControl ==
  /\ pc = "dispatch"
  /\ OtherKey
  /\ ~AtCapacity(userInput, Len(prefix), args.length)
  /\ ~Printable(char)
  /\ RepaintWith(userInput, cursorPos)
  /\ pc' = "loop"
  /\ char' = NoChar
  /\ UNCHANGED <<columns, termMode, oldSettings, stdin, args, prefix,
                 escapeNext, ret, mainVars>>

GetInputNext ==
  \/ GetInputBegin
  \/ GetCharSetRaw
  \/ GetCharRead
  \/ GetCharReadFails
  \/ GetCharFinally
  \/ EscapeByte
  \/ Backspace
  \/ Enter
  \/ EscapeStart
  \/ CtrlC
  \/ Full
  \/ Insert
  \/ OtherControl

----------------------------------------------------------------------------
(* One call of getInput, on its own *)

Arg(p, n, b, t) == [prefix |-> p, length |-> n, blankChar |-> b, inputText |-> t]

Underscore == <<95>>

\* "hello", two backspaces, "p"
HelloScript == <<104, 101, 108, 108, 111, KeyBackspace, KeyBackspace, 112>>
\* "abcdef", "g", Enter
AbcScript == <<97, 98, 99, 100, 101, 102, 103, KeyEnter>>
\* "CD", left arrow, "C"
MidScript == <<KeyRight, KeyLeft, KeyEscape, KeyBracket, KeyLeft, KeyRight>>

FixArgs == Arg(<<102, 105, 120>>, 10, Underscore, <<>>)
AbcArgs == Arg(<<>>, 6, Underscore, <<>>)
MidArgs == Arg(<<102>>, 6, Underscore, <<>>)
\* two left arrows on an empty buffer
LeftScript ==
  <<KeyEscape, KeyBracket, KeyLeft, KeyEscape, KeyBracket, KeyLeft>>

\* "abc" into a field that holds two characters, then a backspace
BackScript == <<97, 98, 99, KeyBackspace>>
BackArgs == Arg(<<>>, 4, Underscore, <<>>)
\* "a", then Escape, '[' and Enter as the final byte
EscScript == <<97, KeyEscape, KeyBracket, KeyEnter>>

\* the calls explored with a free keyboard: an empty label, a seeded field
\* whose seed is too long, a field that is full from the start, a prefix
\* longer than the length, and a free-length field as main calls it
FreeCalls ==
  { Arg(<<>>, 4, Underscore, <<>>),
    Arg(<<102>>, 5, Underscore, <<KeyRight, KeyLeft, KeyRight, KeyLeft>>),
    Arg(<<102>>, 3, Underscore, <<>>),
    Arg(<<97, 98>>, 3, Underscore, <<KeyRight, KeyLeft, KeyRight>>),
    Arg(<<KeyLeft>>, maxsize, <<>>, <<KeyLeft>>) }

EditorColumns == {8}

Sessions ==
  { [args |-> FixArgs, stdin |-> Scripted(HelloScript), columns |-> 10],
    [args |-> AbcArgs, stdin |-> Scripted(AbcScript), columns |-> 8],
    [args |-> MidArgs, stdin |-> Scripted(MidScript), columns |-> 8],
    [args |-> MidArgs, stdin |-> Scripted(LeftScript), columns |-> 8],
    [args |-> BackArgs, stdin |-> Scripted(BackScript), columns |-> 8],
    [args |-> MidArgs, stdin |-> Scripted(EscScript), columns |-> 8] }
  \cup { [args |-> a, stdin |-> Keyboard(FreeKeys), columns |-> c] :
           a \in FreeCalls, c \in EditorColumns }

NoPair == <<<<>>, <<>>>>

EditorIdle ==
  /\ prefix = <<>>
  /\ userInput = <<>>
  /\ cursorPos = 0
  /\ messageLine = <<>>
  /\ maxLengthMessage = 0
  /\ nlines = 0
  /\ cursorLine = 0
  /\ escapeNext = 0
  /\ char = NoChar
  /\ ret = NoPair

Params(maxLength, style, multiple, spell, confirm, config, dry, staged, aspell) ==
  [MaxLength |-> maxLength, ScopeLength |-> 1, BlankChar |-> Underscore,
   TypesStyle |-> style, MultipleTypes |-> multiple, Spellcheck |-> spell,
   ConfirmCommit |-> confirm, config |-> config, dry |-> dry,
   staged |-> staged, aspell |-> aspell]

NoParams == Params(0, "comma", "no", "no", "no", FALSE, FALSE, FALSE, FALSE)

MainIdle ==
  /\ params = NoParams
  /\ types = <<>>
  /\ scope = NoPair
  /\ title = NoPair
  /\ description = NoPair
  /\ issueCode = NoPair
  /\ breakingChange = NoPair
  /\ commitMessage = <<>>
  /\ commits = <<>>
  /\ passes = 0
  /\ retitles = 0
  /\ shouldCommit = "none"

Init ==
  /\ \E s \in Sessions :
       /\ args = s.args
       /\ stdin = s.stdin
       /\ columns = s.columns
  /\ term = BlankTerm
  /\ termMode = "cooked"
  /\ oldSettings = "cooked"
  /\ pc = "call"
  /\ EditorIdle
  /\ mainpc = "harness"
  /\ MainIdle

Next == GetInputNext

Spec == Init /\ [][Next]_vars

----------------------------------------------------------------------------
(* main *)

LabelScope       == <<83, 99, 111, 112, 101>>
LabelDescription == <<68, 101, 115, 99, 114, 105, 112, 116, 105, 111, 110>>
LabelIssueCode   == <<73, 115, 115, 117, 101, 32, 67, 111, 100, 101>>
LabelBreaking    ==
  <<66, 82, 69, 65, 75, 73, 78, 71, 32, 67, 72, 65, 78, 71, 69, 83>>

\* two commit types of the menu, "f" and "d"
TypeF == <<102>>
TypeD == <<100>>

\* what the menu can return: one type, or any selection (none included)
\* when several may be chosen
MenuChoices(prm) ==
  IF prm.MultipleTypes = "yes"
    THEN {<<>>, <<TypeF>>, <<TypeF, TypeD>>}
    ELSE {<<TypeF>>, <<TypeD>>}

\* sep.join(parts) and the bracket style
RECURSIVE PyJoin(_, _)
PyJoin(sep, parts) ==
  IF parts = <<>> THEN <<>>
  ELSE IF Len(parts) = 1 THEN parts[1]
  ELSE parts[1] \o sep \o PyJoin(sep, Tail(parts))

RECURSIVE Bracketed(_)
Bracketed(parts) ==
  IF parts = <<>> THEN <<>>
  ELSE <<91>> \o parts[1] \o <<93>> \o Bracketed(Tail(parts))

\* lines 57-62
TypesPrefix(prm, tps) ==
  IF prm.TypesStyle = "comma" THEN PyJoin(<<44>>, tps) ELSE Bracketed(tps)

\* lines 65-68
TitlePrefix(prm, tps, scp) ==
  IF scp[2] # <<>>
    THEN TypesPrefix(prm, tps) \o <<40>> \o scp[2] \o <<41>>
    ELSE TypesPrefix(prm, tps)

\* spellcheck(message, params): the message with each unknown word kept or
\* replaced by the word the user chose; here the message itself, or its word
\* replaced by one a character longer or (still not empty) shorter
Spellchecked(message) ==
  IF message = <<>> THEN {message}
  ELSE {message, message \o <<KeyLeft>>}
         \cup (IF Len(message) > 1
                 THEN {SubSeq(message, 1, Len(message) - 1)} ELSE {})

\* buildCommitMessage; the descriptions of the model are one short word, which
\* textwrap.wrap returns as it is
BuildCommitMessage(ttl, dsc, iss, brk) ==
  ttl[1] \o ttl[2]
    \o (IF dsc[2] # <<>> THEN <<NL, NL>> \o dsc[2] ELSE <<>>)
    \o (IF iss[2] # <<>> THEN <<NL, NL>> \o iss[1] \o <<Colon, Space>> \o iss[2]
        ELSE <<>>)
    \o (IF brk[2] # <<>> THEN <<NL, NL>> \o brk[1] \o <<Colon, Space>> \o brk[2]
        ELSE <<>>)

\* a call of getInput: the editor paints from the row the cursor is on
CallGetInput(a) ==
  /\ args' = a
  /\ pc' = "call"
  /\ term' = BlankTerm
  /\ UNCHANGED <<columns, termMode, oldSettings, stdin, prefix, userInput,
                 cursorPos, messageLine, maxLengthMessage, nlines, cursorLine,
                 escapeNext, char, ret>>

ReturnedOrInterrupted == pc \in {"returned", "interrupted"}

\* getInput has returned to main (an exception is not caught anywhere in main)
Returned == pc = "returned"

\* lines 24-35: the three early returns
MainReturnsEarly ==
  /\ mainpc = "start"
  /\ \/ params.config
     \/ ~params.staged /\ ~params.dry
     \/ params.Spellcheck = "yes" /\ ~params.aspell
  /\ mainpc' = "done"
  /\ UNCHANGED <<ttyVars, edVars, params, shouldCommit, types, scope, title,
                 description, issueCode, breakingChange, commitMessage,
                 commits, passes, retitles>>

\* lines 37-43
MainBegin ==
  /\ mainpc = "start"
  /\ ~params.config
  /\ params.staged \/ params.dry
  /\ ~(params.Spellcheck = "yes" /\ ~params.aspell)
  /\ title' = NoPair
  /\ description' = <<LabelDescription, <<>>>>
  /\ scope' = <<LabelScope, <<>>>>
  /\ issueCode' = <<LabelIssueCode, <<>>>>
  /\ breakingChange' = <<LabelBreaking, <<>>>>
  /\ types' = <<>>
  /\ mainpc' = "menu"
  /\ UNCHANGED <<ttyVars, edVars, params, shouldCommit, commitMessage,
                 commits, passes, retitles>>

\* lines 45-54: a pass of the loop starts: the menu, then the scope field
MainMenu ==
  /\ mainpc = "menu"
  /\ passes < MaxPasses
  /\ \E choices \in MenuChoices(params) :
       /\ choices # <<>>
       /\ types' = choices
  /\ passes' = passes + 1
  /\ CallGetInput(Arg(scope[1], params.ScopeLength + 7, params.BlankChar,
                      scope[2]))
  /\ mainpc' = "scope"
  /\ UNCHANGED <<params, shouldCommit, scope, title, description, issueCode,
                 breakingChange, commitMessage, commits, retitles>>

\* lines 320-321: nothing was chosen, showMenu raises RuntimeError
MainMenuRaises ==
  /\ mainpc = "menu"
  /\ passes < MaxPasses
  /\ <<>> \in MenuChoices(params)
  /\ mainpc' = "raised"
  /\ UNCHANGED <<ttyVars, edVars, params, shouldCommit, types, scope, title,
                 description, issueCode, breakingChange, commitMessage,
                 commits, passes, retitles>>

\* lines 51-73: the scope is in, the title field is prompted
MainAfterScope ==
  /\ mainpc = "scope"
  /\ Returned
  /\ scope' = ret
  /\ CallGetInput(Arg(TitlePrefix(params, types, ret), params.MaxLength,
                      params.BlankChar, title[2]))
  /\ mainpc' = "title"
  /\ UNCHANGED <<params, shouldCommit, types, title, description, issueCode,
                 breakingChange, commitMessage, commits, passes, retitles>>

\* lines 70-78
MainAfterTitle ==
  /\ mainpc = "title"
  /\ Returned
  /\ title' = ret
  /\ CallGetInput(Arg(description[1], maxsize, <<>>, description[2]))
  /\ mainpc' = "description"
  /\ UNCHANGED <<params, shouldCommit, types, scope, description, issueCode,
                 breakingChange, commitMessage, commits, passes, retitles>>

\* lines 75-83
MainAfterDescription ==
  /\ mainpc = "description"
  /\ Returned
  /\ description' = ret
  /\ CallGetInput(Arg(issueCode[1], maxsize, <<>>, issueCode[2]))
  /\ mainpc' = "issue"
  /\ UNCHANGED <<params, shouldCommit, types, scope, title, issueCode,
                 breakingChange, commitMessage, commits, passes, retitles>>

\* lines 80-88
MainAfterIssue ==
  /\ mainpc = "issue"
  /\ Returned
  /\ issueCode' = ret
  /\ CallGetInput(Arg(breakingChange[1], maxsize, <<>>, breakingChange[2]))
  /\ mainpc' = "breaking"
  /\ UNCHANGED <<params, shouldCommit, types, scope, title, description,
                 breakingChange, commitMessage, commits, passes, retitles>>

\* lines 85-96: the last field is in; the spellcheck pass when it is on
MainAfterBreaking ==
  /\ mainpc = "breaking"
  /\ Returned
  /\ IF params.Spellcheck = "yes"
       THEN /\ \E t \in Spellchecked(title[2]) : title' = <<title[1], t>>
            /\ \E d \in Spellchecked(description[2]) :
                 description' = <<description[1], d>>
            /\ \E b \in Spellchecked(ret[2]) : breakingChange' = <<ret[1], b>>
       ELSE /\ breakingChange' = ret
            /\ UNCHANGED <<title, description>>
  /\ mainpc' = "checktitle"
  /\ UNCHANGED <<ttyVars, edVars, params, shouldCommit, types, scope,
                 issueCode, commitMessage, commits, passes, retitles>>


\* a plausible slip: the typed title alone compared with MaxLength
TitleTooLongContentOnly == Len(title[2]) > params.MaxLength

\* line 98
TitleTooLong == Len(title[1]) + Len(title[2]) > params.MaxLength

\* lines 98-105: the title is too long, the editor is called on it again
MainRetitle ==
  /\ mainpc = "checktitle"
  /\ TitleTooLong
  /\ retitles < MaxRetitles
  /\ retitles' = retitles + 1
  /\ CallGetInput(Arg(title[1], params.MaxLength, params.BlankChar, title[2]))
  /\ mainpc' = "retitle"
  /\ UNCHANGED <<params, shouldCommit, types, scope, title, description,
                 issueCode, breakingChange, commitMessage, commits, passes>>

\* lines 102-106: the re-edited title is spellchecked, whatever Spellcheck is
MainAfterRetitle ==
  /\ mainpc = "retitle"
  /\ Returned
  /\ \E t \in Spellchecked(ret[2]) : title' = <<ret[1], t>>
  /\ mainpc' = "checktitle"
  /\ UNCHANGED <<ttyVars, edVars, params, shouldCommit, types, scope,
                 description, issueCode, breakingChange, commitMessage,
                 commits, passes, retitles>>

\* lines 109-115, 140-141: the message is built; no confirmation is asked
MainBuildNoConfirm ==
  /\ mainpc = "checktitle"
  /\ ~TitleTooLong
  /\ params.ConfirmCommit # "yes"
  /\ commitMessage' = BuildCommitMessage(title, description, issueCode,
                                          breakingChange)
  /\ mainpc' = "commit"
  /\ UNCHANGED <<ttyVars, edVars, params, shouldCommit, types, scope, title,
                 description, issueCode, breakingChange, commits, passes,
                 retitles>>

\* lines 109-131: the message is built and shown, the user is asked
MainBuildConfirm ==
  /\ mainpc = "checktitle"
  /\ ~TitleTooLong
  /\ params.ConfirmCommit = "yes"
  /\ commitMessage' = BuildCommitMessage(title, description, issueCode,
                                          breakingChange)
  /\ mainpc' = "confirm"
  /\ UNCHANGED <<ttyVars, edVars, params, shouldCommit, types, scope, title,
                 description, issueCode, breakingChange, commits, passes,
                 retitles>>


\* a plausible slip: every answer but 'cancel' leaves the loop
AfterAnswerEditCommits(answer) == IF answer = "cancel" THEN "done" ELSE "commit"

\* lines 133-138: 'yes' sets readyToCommit, 'edit' leaves it False, anything
\* else returns
AfterAnswer(answer) ==
  IF answer = "yes" THEN "commit"
  ELSE IF answer = "edit" THEN "menu"
  ELSE "done"

\* lines 133-134
MainAnswerYes ==
  /\ mainpc = "confirm"
  /\ shouldCommit' = "yes"
  /\ mainpc' = AfterAnswer("yes")
  /\ UNCHANGED <<ttyVars, edVars, params, types, scope, title, description,
                 issueCode, breakingChange, commitMessage, commits, passes,
                 retitles>>

\* lines 135-136: readyToCommit stays False, the loop starts another pass
MainAnswerEdit ==
  /\ mainpc = "confirm"
  /\ shouldCommit' = "edit"
  /\ mainpc' = AfterAnswer("edit")
  /\ UNCHANGED <<ttyVars, edVars, params, types, scope, title, description,
                 issueCode, breakingChange, commitMessage, commits, passes,
                 retitles>>

\* lines 137-138
MainAnswerCancel ==
  /\ mainpc = "confirm"
  /\ shouldCommit' = "cancel"
  /\ mainpc' = AfterAnswer("cancel")
  /\ UNCHANGED <<ttyVars, edVars, params, types, scope, title, description,
                 issueCode, breakingChange, commitMessage, commits, passes,
                 retitles>>

\* lines 143-144
MainCommit ==
  /\ mainpc = "commit"
  /\ ~params.dry
  /\ commits' = Append(commits, commitMessage)
  /\ mainpc' = "done"
  /\ UNCHANGED <<ttyVars, edVars, params, shouldCommit, types, scope, title,
                 description, issueCode, breakingChange, commitMessage,
                 passes, retitles>>

\* lines 145-146
MainDryRun ==
  /\ mainpc = "commit"
  /\ params.dry
  /\ mainpc' = "done"
  /\ UNCHANGED <<ttyVars, edVars, params, shouldCommit, types, scope, title,
                 description, issueCode, breakingChange, commitMessage,
                 commits, passes, retitles>>

\* the keys pressed in main's workflow: 'D' is the printable character
MainKeys == {KeyCtrlC, KeyTab, KeyEnter, KeyEscape, KeyLeft, KeyBackspace}

\* the configurations and command lines explored
ParamSets ==
  { Params(5, "comma", "no", "no", "yes", FALSE, FALSE, TRUE, FALSE),
    Params(5, "brackets", "no", "yes", "no", FALSE, FALSE, TRUE, TRUE),
    Params(6, "comma", "yes", "no", "no", FALSE, TRUE, FALSE, FALSE),
    Params(5, "comma", "no", "no", "yes", FALSE, FALSE, FALSE, FALSE),
    Params(5, "comma", "no", "yes", "yes", FALSE, FALSE, TRUE, FALSE),
    Params(5, "comma", "no", "no", "yes", TRUE, FALSE, TRUE, FALSE) }

MainColumns == 15

InitMain ==
  /\ params \in ParamSets
  /\ columns = MainColumns
  /\ stdin = Keyboard(MainKeys)
  /\ term = BlankTerm
  /\ termMode = "cooked"
  /\ oldSettings = "cooked"
  /\ pc = "idle"
  /\ args = Arg(<<>>, 0, <<>>, <<>>)
  /\ EditorIdle
  /\ mainpc = "start"
  /\ types = <<>>
  /\ scope = NoPair
  /\ title = NoPair
  /\ description = NoPair
  /\ issueCode = NoPair
  /\ breakingChange = NoPair
  /\ commitMessage = <<>>
  /\ commits = <<>>
  /\ passes = 0
  /\ retitles = 0
  /\ shouldCommit = "none"

MainNext ==
  \/ MainReturnsEarly
  \/ MainBegin
  \/ MainMenu
  \/ MainMenuRaises
  \/ MainAfterScope
  \/ MainAfterTitle
  \/ MainAfterDescription
  \/ MainAfterIssue
  \/ MainAfterBreaking
  \/ MainRetitle
  \/ MainAfterRetitle
  \/ MainBuildNoConfirm
  \/ MainBuildConfirm
  \/ MainAnswerYes
  \/ MainAnswerEdit
  \/ MainAnswerCancel
  \/ MainCommit
  \/ MainDryRun

NextMain == GetInputNext \/ MainNext

SpecMain == InitMain /\ [][NextMain]_vars

----------------------------------------------------------------------------
(* One call of printMessageWrapped, on its own *)

RenderChars == {97, 98}

Messages == UNION { [1..n -> RenderChars] : n \in 0..MaxLen }

InitRender ==
  /\ messageLine \in Messages
  /\ cursorPos \in 0..Len(messageLine)
  /\ columns \in margin..(margin + MaxCols)
  /\ term = BlankTerm
  /\ termMode = "cooked"
  /\ oldSettings = "cooked"
  /\ stdin = Keyboard({})
  /\ pc = "render"
  /\ args = Arg(<<>>, 0, <<>>, <<>>)
  /\ prefix = <<>>
  /\ userInput = <<>>
  /\ maxLengthMessage = 0
  /\ nlines = 0
  /\ cursorLine = 0
  /\ escapeNext = 0
  /\ char = NoChar
  /\ ret = NoPair
  /\ mainpc = "harness"
  /\ MainIdle

\* lines 533-560
Render ==
  /\ pc = "render"
  /\ Cols(columns) # 0
  /\ LET r == PrintMessageWrapped(term, messageLine, cursorPos, Cols(columns))
     IN  /\ term' = r.term
         /\ nlines' = r.nlines
         /\ cursorLine' = r.cursorLine
  /\ pc' = "rendered"
  /\ UNCHANGED <<columns, termMode, oldSettings, stdin, args, prefix,
                 userInput, cursorPos, messageLine, maxLengthMessage,
                 escapeNext, char, ret, mainVars>>

\* line 540 with cols = 0: ZeroDivisionError
RenderRaises ==
  /\ pc = "render"
  /\ Cols(columns) = 0
  /\ pc' = "raised"
  /\ UNCHANGED <<ttyVars, args, prefix, userInput, cursorPos, messageLine,
                 maxLengthMessage, nlines, cursorLine, escapeNext, char, ret,
                 mainVars>>

NextRender == Render \/ RenderRaises

SpecRender == InitRender /\ [][NextRender]_vars

----------------------------------------------------------------------------
(* Properties *)

\* getInput has run its first lines: its locals hold the session's values
Started == pc \in {"loop", "raw", "read", "readfail", "dispatch", "returned",
                   "interrupted", "raised"}

Bounded == args.length # maxsize

\* the script of a scripted session has been read and handled to its end
ScriptDone(script) ==
  /\ stdin.script = script
  /\ stdin.pos = Len(script) + 1
  /\ pc \in {"loop", "returned"}

CeilDiv(a, b) == (a + b - 1) \div b

\* C1 (as claimed): in every bounded field, from the start of the session
\* on, len(prompt) + len(buffer) <= maxLength, and so is the combined length
\* of the pair returned on Enter.
C1_Capacity ==
  (Started /\ Bounded) =>
     /\ Len(prefix) + Len(userInput) <= args.length
     /\ pc = "returned" => Len(ret[1]) + Len(ret[2]) <= args.length

\* C2: from the start of the session on, after every keystroke,
\* len(prompt) <= cursor <= len(prompt) + len(buffer).
C2_CursorBounds ==
  Started =>
     /\ Len(prefix) <= cursorPos
     /\ cursorPos <= Len(prefix) + Len(userInput)

\* C2 witness: two left arrows on an empty buffer were handled and the
\* cursor is still at len(prompt).
C2_Witness ==
  /\ ScriptDone(LeftScript)
  /\ userInput = <<>>
  /\ cursorPos = Len(prefix)
  /\ escapeNext = 0

\* C3: the terminal is raw exactly while control is inside getChar between
\* setraw and the finally clause; everywhere else (in getInput, after its
\* return, after an error or the interrupt) it is in the mode it had before.
C3_ModeRestored ==
  /\ pc \in {"raw", "read", "readfail"} => termMode = "raw"
  /\ pc \notin {"raw", "read", "readfail"} => termMode = "cooked"

\* C3 witness: the read raised after raw mode was set, the error has left
\* getChar, and the terminal is back in its prior mode.
C3_Witness == pc = "raised" /\ termMode = "cooked"

\* C4: a step that ends an editor session of main's workflow with the
\* interrupt hands no pair to main (ret keeps what it held), and from then on
\* nothing moves: no field is prompted (args, the fields and main's position
\* stay), and no commit has been or is made.
C4_InterruptAborts ==
  [][(pc = "interrupted" \/ pc' = "interrupted") =>
       /\ pc' = "interrupted"
       /\ ret' = ret
       /\ args' = args
       /\ commits' = <<>>
       /\ UNCHANGED mainVars]_vars

\* C4 witness: Ctrl-C ended the re-edit of an over-long title, after the five
\* fields of the pass had been entered.
C4_Witness ==
  /\ pc = "interrupted"
  /\ mainpc = "retitle"
  /\ breakingChange[1] = Prompt(LabelBreaking)

\* C5 (as claimed): whatever the editor state, a Ctrl-C byte handed to the
\* dispatch ends the session with the interrupt condition.
C5_CtrlCAlwaysFatal ==
  [][(pc = "dispatch" /\ char = KeyCtrlC) => pc' = "interrupted"]_vars

\* C6 (as claimed): rowCount = ceil(L / W), and 1 when L = 0.
C6_RowCountCeil ==
  pc = "rendered" =>
     nlines = (IF Len(messageLine) = 0 THEN 1
               ELSE CeilDiv(Len(messageLine), Cols(columns)))

\* C6 (amended): rowCount = floor(L / W) + 1: ceil(L / W) when L is not a
\* multiple of W, 1 when L = 0, and ceil(L / W) + 1 when L is a positive
\* multiple of W (the last row is empty).
C6_RowCount ==
  pc = "rendered" =>
     LET L == Len(messageLine)
         W == Cols(columns)
     IN  /\ L % W # 0 => nlines = CeilDiv(L, W)
         /\ L = 0 => nlines = 1
         /\ (L > 0 /\ L % W = 0) => nlines = CeilDiv(L, W) + 1

\* C6 witness: a message whose length is a positive multiple of the width
\* was rendered.
C6_Witness ==
  /\ pc = "rendered"
  /\ Len(messageLine) > 0
  /\ Len(messageLine) % Cols(columns) = 0
  /\ nlines = Len(messageLine) \div Cols(columns) + 1

\* C7: for cursorOffset in [0, L], the reported cursorRow is
\* cursorOffset // W and, after the prints, the terminal cursor is at
\* (cursorRow, cursorCol) counted from the first row painted, with
\* cursorRow * W + cursorCol = cursorOffset and 0 <= cursorCol < W.
C7_CursorPosition ==
  pc = "rendered" =>
     LET W == Cols(columns)
     IN  /\ cursorLine * W <= cursorPos
         /\ cursorPos < (cursorLine + 1) * W
         /\ term.row = cursorLine
         /\ term.row * W + term.col = cursorPos
         /\ 0 <= term.col
         /\ term.col < W

\* C7 witness: the cursor offset equals L and is a positive multiple of W.
C7_Witness ==
  /\ pc = "rendered"
  /\ cursorPos = Len(messageLine)
  /\ cursorPos > 0
  /\ cursorPos % Cols(columns) = 0
  /\ term.col = 0
  /\ term.row = cursorPos \div Cols(columns)

\* C8: in the Normal escape state and below capacity, a printable character
\* x read with the cursor at offset k of the buffer gives
\* buffer' = buffer[:k] + x + buffer[k:] and cursor' = cursor + 1.
C8_InsertAtCursor ==
  [][(/\ pc = "dispatch"
      /\ escapeNext = 0
      /\ char >= 32
      /\ char # KeyBackspace
      /\ Len(prefix) + Len(userInput) < args.length)
     => LET k == cursorPos - Len(prefix)
        IN  /\ userInput' = SubSeq(userInput, 1, k) \o <<char>>
                              \o SubSeq(userInput, k + 1, Len(userInput))
            /\ cursorPos' = cursorPos + 1]_vars

\* C8 witness: "CD", one left arrow, then "C" was typed: the buffer is
\* "CCD" and the cursor is after the second character.
C8_Witness ==
  /\ ScriptDone(MidScript)
  /\ userInput = <<KeyRight, KeyRight, KeyLeft>>
  /\ cursorPos = Len(prefix) + 2

\* C9 (as claimed): with an empty label and maxLength = N the field is full
\* exactly when it holds N characters, and "abcdef", "g", Enter with N = 6
\* returns "abcdef".
C9_EmptyLabelAcceptsN ==
  /\ (Started /\ Bounded /\ args.prefix = <<>>) =>
        (AtCapacity(userInput, Len(prefix), args.length)
           <=> Len(userInput) = args.length)
  /\ (ScriptDone(AbcScript) /\ pc = "returned") =>
        ret[2] = <<97, 98, 99, 100, 101, 102>>

\* C9 (amended): with an empty label the prompt is ": ", so a field of
\* maxLength = N >= 2 holds at most N - 2 characters: a printable character
\* is inserted while fewer are held and dropped otherwise; "abcdef", "g",
\* Enter with N = 6 returns "abcd".
C9_EmptyLabelAcceptsNMinus2 ==
  /\ []((Started /\ Bounded /\ args.prefix = <<>>) =>
          /\ prefix = <<Colon, Space>>
          /\ Len(userInput) <= args.length - 2)
  /\ []((ScriptDone(AbcScript) /\ pc = "returned") =>
          ret = <<<<Colon, Space>>, <<97, 98, 99, 100>>>>)
  /\ [][(/\ pc = "dispatch"
         /\ escapeNext = 0
         /\ char >= 32
         /\ char # KeyBackspace
         /\ Bounded
         /\ args.prefix = <<>>)
        => IF Len(userInput) < args.length - 2
             THEN Len(userInput') = Len(userInput) + 1
             ELSE userInput' = userInput]_vars

\* C9 witness: the scripted session has returned "abcd".
C9_Witness ==
  /\ ScriptDone(AbcScript)
  /\ pc = "returned"
  /\ ret[2] = <<97, 98, 99, 100>>

\* fillChar repeated max(0, n) times
Pad(n, fillChar) ==
  IF fillChar = <<>> THEN <<>>
  ELSE [i \in 1..(Max(0, n) * Len(fillChar)) |->
          fillChar[((i - 1) % Len(fillChar)) + 1]]

\* C10: the line handed to the renderer is prompt + buffer + fillChar
\* repeated max(0, maxLength - len(prompt) - len(buffer)) times; with a
\* one-character fill and a prompt that fits its length is maxLength; and
\* maxLength = 10, label "fix", fill '_', "hello", two backspaces, "p" gives
\* buffer "help", line "fix: help_" and cursor offset 9.
C10_DisplayLine ==
  /\ Started =>
        messageLine =
          prefix \o userInput
            \o Pad(args.length - Len(prefix) - Len(userInput), args.blankChar)
  /\ (Started /\ Len(args.blankChar) = 1 /\ Len(prefix) <= args.length) =>
        Len(messageLine) = args.length
  /\ ScriptDone(HelloScript) =>
        /\ userInput = <<104, 101, 108, 112>>
        /\ messageLine = <<102, 105, 120, 58, 32, 104, 101, 108, 112, 95>>
        /\ cursorPos = 9

\* C10 witness: the scripted session has handled its last key.
C10_Witness ==
  /\ ScriptDone(HelloScript)
  /\ args = FixArgs
  /\ messageLine = <<102, 105, 120, 58, 32, 104, 101, 108, 112, 95>>

\* C11 (as claimed): the first byte read after the Escape code is discarded
\* whatever its value: it changes neither the buffer nor the cursor.
C11_MiddleByteDiscarded ==
  [][(pc = "dispatch" /\ escapeNext = 2) =>
       /\ userInput' = userInput
       /\ cursorPos' = cursorPos]_vars

\* C12 (as claimed): whatever the terminal width, the row width used by
\* printMessageWrapped is at least 1 and the call completes without an error.
C12_WidthAtLeastOne ==
  pc \in {"rendered", "raised"} =>
     /\ Cols(columns) >= 1
     /\ pc = "rendered"

\* the longest leading part of seed that fits in room characters
LongestFit(seed, room) == SubSeq(seed, 1, Max(0, Min(Len(seed), room)))

\* C13 (as claimed): a session starts with the buffer equal to the longest
\* leading part of the seed such that len(prompt) + len(buffer) <= maxLength
\* (nothing when the prompt alone is longer), the cursor at its end.
C13_SeedTruncation ==
  [][pc = "call" =>
       /\ userInput' = LongestFit(args.inputText, args.length - Len(prefix'))
       /\ cursorPos' = Len(prefix') + Len(userInput')]_vars

\* C14: in the Normal escape state, at capacity or not, Backspace with the
\* cursor after the start of the editable region removes the character just
\* before the cursor and moves the cursor left by one; with the cursor at the
\* start it changes neither; the session goes on.
C14_BackspaceLaw ==
  [][(pc = "dispatch" /\ escapeNext = 0 /\ char = KeyBackspace) =>
       LET k == cursorPos - Len(prefix)
       IN  /\ pc' = "loop"
           /\ IF k > 0
                THEN /\ userInput' = SubSeq(userInput, 1, k - 1)
                                       \o SubSeq(userInput, k + 1, Len(userInput))
                     /\ cursorPos' = cursorPos - 1
                ELSE /\ userInput' = userInput
                     /\ cursorPos' = cursorPos]_vars

\* C14 witness: the field was filled ("ab"), refused "c", and the backspace
\* then removed "b".
C14_Witness ==
  /\ ScriptDone(BackScript)
  /\ args = BackArgs
  /\ userInput = <<97>>
  /\ cursorPos = Len(prefix) + 1

BlankRow(t, r) == RStrip(ScreenRow(t, r)) = <<>>

\* C16: when Enter ends a session the terminal cursor is on the cursor row of
\* the last repaint, and the newlines emitted move it to a row strictly below
\* the rows of the wrapped line (rows 0 .. nlines - 1) and below every row
\* that shows a character, also when the keys before Enter repainted nothing.
C16_NoOverlap ==
  [][(pc = "dispatch" /\ escapeNext = 0 /\ char = KeyEnter) =>
       /\ pc' = "returned"
       /\ term.row = cursorLine
       /\ term'.row > nlines - 1
       /\ term'.screen = term.screen
       /\ \A r \in 0..Len(term.screen) : r >= term'.row => BlankRow(term, r)]_vars

\* C16 witness: six letters into a field that holds four (the last two
\* repaint nothing), a seventh, then Enter: the line takes three rows and the
\* cursor ends below them.
C16_Witness ==
  /\ ScriptDone(AbcScript)
  /\ pc = "returned"
  /\ nlines = 3
  /\ term.row > 2
  /\ ~BlankRow(term, 1)

\* rows with their trailing blanks dropped, and without the blank rows at
\* the end: what a reader of the terminal can tell apart
RECURSIVE DropBlankRows(_)
DropBlankRows(rows) ==
  IF rows # <<>> /\ rows[Len(rows)] = <<>>
    THEN DropBlankRows(SubSeq(rows, 1, Len(rows) - 1))
    ELSE rows

Visible(t) == DropBlankRows([r \in 1..Len(t.screen) |-> RStrip(t.screen[r])])

\* the wrapped rows of a line, as they show
WrappedRows(line, cols) ==
  DropBlankRows([r \in 1..(Len(line) \div cols + 1) |->
                   RStrip(SubSeq(line, (r - 1) * cols + 1,
                                 Min(r * cols, Len(line))))])

\* C17: at a fixed width, after the first paint and after every repaint of
\* getInput the terminal shows exactly the wrapped rows of the current
\* display line (nothing of an earlier, longer line), with the cursor at the
\* cursor offset; and a repaint of the same line and offset leaves what is
\* shown and the cursor as they were.
C17_EraseThenDraw ==
  /\ []((Started /\ pc # "returned") =>
          /\ Visible(term) = WrappedRows(messageLine, Cols(columns))
          /\ term.row * Cols(columns) + term.col = cursorPos
          /\ term.col < Cols(columns))
  /\ [][(/\ pc = "dispatch"
         /\ pc' = "loop"
         /\ userInput' = userInput
         /\ cursorPos' = cursorPos)
        => /\ Visible(term') = Visible(term)
           /\ term'.row = term.row
           /\ term'.col = term.col]_vars

\* C17 witness: a free-length field whose line was painted longer than it is
\* now (the seed was erased with backspace) and takes fewer rows.
C17_Witness ==
  /\ args.length = maxsize
  /\ pc = "loop"
  /\ userInput = <<>>
  /\ maxLengthMessage > Len(messageLine)
  /\ Visible(term) = <<RStrip(prefix)>>

\* the first line of a message
RECURSIVE FirstLine(_)
FirstLine(m) ==
  IF m = <<>> \/ Head(m) = NL THEN <<>> ELSE <<Head(m)>> \o FirstLine(Tail(m))

\* C18: once the message is assembled, its first line is the title prefix
\* followed by the title content and is at most MaxLength long, and so is
\* the first line of every message commit is invoked with.
C18_FirstLineFits ==
  /\ mainpc \in {"confirm", "commit"} =>
        /\ FirstLine(commitMessage) = title[1] \o title[2]
        /\ Len(FirstLine(commitMessage)) <= params.MaxLength
  /\ \A i \in 1..Len(commits) :
        Len(FirstLine(commits[i])) <= params.MaxLength

\* C18 witness: commit was invoked with a message that has further lines and
\* whose first line is exactly MaxLength long.
C18_Witness ==
  /\ commits # <<>>
  /\ Len(FirstLine(commits[1])) = params.MaxLength
  /\ Len(commits[1]) > params.MaxLength

\* C19 (as claimed): on every pass of main's loop the scope, description,
\* issue code and breaking change fields are prompted with the prompt of the
\* first pass, and every field starts from the whole content it had (so that
\* Enter alone returns it); for the title this is said when its prompt is the
\* one of the previous pass.
C19_ReeditRoundTrip ==
  /\ []((Started /\ mainpc = "scope") => prefix = Prompt(LabelScope))
  /\ []((Started /\ mainpc = "description") =>
          prefix = Prompt(LabelDescription))
  /\ []((Started /\ mainpc = "issue") => prefix = Prompt(LabelIssueCode))
  /\ []((Started /\ mainpc = "breaking") => prefix = Prompt(LabelBreaking))
  /\ [][(/\ pc = "call"
         /\ \/ mainpc \in {"scope", "description", "issue", "breaking"}
            \/ mainpc = "title" /\ prefix' = title[1])
        => userInput' = args.inputText]_vars

\* C20: commit is invoked at most once in a run, and only when something was
\* staged, the run is not a dry run, the last field session has returned
\* (Enter) and, with ConfirmCommit 'yes', the last answer was 'yes'; the
\* answer 'cancel' ends the run and 'edit' starts another pass, neither with
\* a commit.
C20_CommitOnce ==
  /\ [](Len(commits) <= 1)
  /\ []((mainpc = "done" /\ shouldCommit = "cancel") => commits = <<>>)
  /\ [][commits' # commits =>
          /\ commits = <<>>
          /\ commits' = <<commitMessage>>
          /\ params.staged
          /\ ~params.dry
          /\ pc = "returned"
          /\ params.ConfirmCommit = "yes" => shouldCommit = "yes"
          /\ params.ConfirmCommit # "yes" => shouldCommit = "none"]_vars
  /\ [][(mainpc = "confirm" /\ shouldCommit' = "cancel") =>
          (mainpc' = "done" /\ commits' = commits)]_vars
  /\ [][(mainpc = "confirm" /\ shouldCommit' = "edit") =>
          (mainpc' = "menu" /\ commits' = commits)]_vars
  /\ [][(mainpc = "menu" /\ mainpc' = "scope") =>
          (commits = <<>> /\ commits' = <<>> /\ pc' = "call")]_vars

\* C20 witness: the first pass was answered 'edit', the second 'yes', and
\* commit was invoked with the message of the second pass.
C20_Witness ==
  /\ commits # <<>>
  /\ passes = 2
  /\ shouldCommit = "yes"
  /\ mainpc = "done"

\* C21 (as claimed): when the editor, called again on an over-long title,
\* has returned (Enter) and the spellcheck that follows changes nothing, the
\* title, prefix and content together, is at most MaxLength long.
C21_RetitleFits ==
  [][(/\ mainpc = "retitle"
      /\ mainpc' = "checktitle"
      /\ pc = "returned"
      /\ title' = ret)
     => Len(title'[1]) + Len(title'[2]) <= params.MaxLength]_vars

====
